---- MODULE Spec2Model ----
(***************************************************************************)
(* Duck Tees storefront backend (src/main.py, src/schemas.py).             *)
(*                                                                         *)
(* The request handlers of main.py are modelled at the granularity of      *)
(* their calls to the document store and to the payment provider: each     *)
(* action is one such call together with the local code around it.         *)
(* FastAPI runs these synchronous handlers on a thread pool, so the calls  *)
(* of different requests interleave (Spec); SpecSeq is the same program    *)
(* serving one request at a time.                                          *)
(*                                                                         *)
(* database.py (db, create_document, get_documents) is not part of the     *)
(* available sources; it is modelled from section 4.1 of the               *)
(* specification.  The store calls of main.py (count_documents,            *)
(* create_document, find_one) may raise.  main.py tests the handle both    *)
(* as "db is None" and by its truth value ("if db"); what bool(db) does    *)
(* on a connected handle depends on the installed driver: it is True, or   *)
(* it raises NotImplementedError (pymongo 4 Database objects).  Both are   *)
(* outcomes of the model.                                                  *)
(***************************************************************************)
EXTENDS Integers, Sequences, FiniteSets, TLC

VARIABLES
    STRIPE_SECRET_KEY,  \* main.py:13  TRUE iff the environment sets the key
    db,                 \* main.py:7   "None" or "Database" (the store handle)
    db_truth,           \* bool(db): "False", "True" or "raises"
    product,            \* collection db["product"], in insertion order
    order,              \* collection db["order"], in insertion order
    sessions,           \* checkout sessions the payment provider has created
    op,                 \* per worker: the handler it is running
    pc,                 \* per worker: the call it is about to make
    items,              \* create_checkout_session: the request body
    line_items,         \* create_checkout_session: local line_items
    order_items,        \* create_checkout_session: local order_items
    computed_total,     \* create_checkout_session: local computed_total
    session,            \* create_checkout_session: local session
    count,              \* ensure_seed_products: local count
    seed_idx,           \* ensure_seed_products: position of p in SEED_PRODUCTS
    resp,               \* per worker: the HTTP response of the finished handler
    seed_fault,         \* history: how store errors have hit seeding so far
    submitted           \* history: cart lines submitted so far

store  == <<product, order, sessions>>
config == <<STRIPE_SECRET_KEY, db, db_truth>>
cart   == <<items, line_items, order_items, computed_total, session>>
seed   == <<count, seed_idx>>
hist   == <<seed_fault, submitted>>
vars   == <<STRIPE_SECRET_KEY, db, db_truth, product, order, sessions, op, pc, items,
            line_items, order_items, computed_total, session, count,
            seed_idx, resp, seed_fault, submitted>>

(***************************************************************************)
(* Bounds of the model.                                                    *)
(***************************************************************************)
\* Cart lines submitted over a whole run, all checkout requests together,
\* when requests are served one at a time ...
MaxLines == 3

\* ... and when their calls interleave.
MaxLinesConcurrent == 1

\* Worker threads serving requests.
Procs == {"w1", "w2"}

\* Python's None, and the value of a local that is not bound yet.
None == [none |-> TRUE]

(***************************************************************************)
(* schemas.py and the demo catalog.                                        *)
(***************************************************************************)
HappyPrice == 2499
SkaterPrice == 2799
ExplorerPrice == 2999

Product(title, price_cents, slug, image, sku) ==
    [title |-> title, price_cents |-> price_cents, currency |-> "eur",
     category |-> "T-Shirts", in_stock |-> TRUE, slug |-> slug,
     images |-> <<image>>, sku |-> sku]

SEED_PRODUCTS ==
    << Product("Happy Duck Tee", HappyPrice, "happy-duck-tee",
               "photo-1520975916090", "DUCK-001"),
       Product("Skater Duck Tee", SkaterPrice, "skater-duck-tee",
               "photo-1512436991641", "DUCK-002"),
       Product("Explorer Duck Tee", ExplorerPrice, "explorer-duck-tee",
               "photo-1503342452485", "DUCK-003") >>

Order(email, its, amount_total, currency, stripe_session_id) ==
    [email |-> email, items |-> its, amount_total |-> amount_total,
     currency |-> currency, stripe_session_id |-> stripe_session_id]

\* Order.amount_total is declared ge=0: constructing an Order validates it.
OrderValid(amount_total) == amount_total >= 0

CartItem(slug, quantity) ==
    [slug |-> slug, quantity |-> quantity, size |-> None, color |-> None]

(***************************************************************************)
(* Request inputs.                                                         *)
(***************************************************************************)
CartSlugs == {"happy-duck-tee", "explorer-duck-tee", "rubber-duck-tee"}
Quantities == {-1, 0, 2}
CartItems == {CartItem(s, q) : s \in CartSlugs, q \in Quantities}
Carts(n) == UNION {[1..k -> CartItems] : k \in 0..n}
ProviderErrors == {"api_connection_error"}

(***************************************************************************)
(* Pure helpers of create_checkout_session.                                *)
(***************************************************************************)
(***************************************************************************)
(* Each helper below is preceded by its faulty variants: the same code     *)
(* with one plausible slip.  They are used only to show that a property    *)
(* depends on the code it is about.                                        *)
(***************************************************************************)
\* db["product"].find_one({"slug": slug}): the first document with the slug
FirstIndex(coll, slug) ==
    CHOOSE i \in 1..Len(coll) :
        /\ coll[i].slug = slug
        /\ \A j \in 1..(i - 1) : coll[j].slug # slug

find_one(coll, slug) ==
    IF \E i \in 1..Len(coll) : coll[i].slug = slug
    THEN coll[FirstIndex(coll, slug)]
    ELSE None

\* bool(db): None is falsy; a connected handle is truthy or refuses the test
BoolOf(handle) == IF handle = "None" THEN {"False"} ELSE {"True", "raises"}

\* slip: max(0, ...)
ClampQtyZero(quantity) == IF quantity > 0 THEN quantity ELSE 0

\* qty = max(1, int(item.quantity))
ClampQty(quantity) == IF quantity > 1 THEN quantity ELSE 1

\* price_cents = int(prod.get("price_cents", 0))
PriceCents(prod) == prod.price_cents

\* slip: the order line stores item.quantity instead of qty
OrderItemRawQty(item, prod) ==
    [slug |-> item.slug, title |-> prod.title,
     quantity |-> item.quantity, price_cents |-> prod.price_cents,
     size |-> item.size, color |-> item.color]

\* the dict appended to order_items
OrderItem(item, prod) ==
    [slug |-> item.slug, title |-> prod.title,
     quantity |-> ClampQty(item.quantity), price_cents |-> PriceCents(prod),
     size |-> item.size, color |-> item.color]

\* the dict appended to line_items
LineItem(item, prod) ==
    [quantity |-> ClampQty(item.quantity),
     price_data |-> [currency |-> prod.currency,
                     unit_amount |-> PriceCents(prod),
                     product_data |-> [name |-> prod.title,
                                       images |-> SubSeq(prod.images, 1, 1)]]]

\* slip: "=" for "+="
AddLineOverwrite(total, item, prod) ==
    prod.price_cents * (IF item.quantity > 1 THEN item.quantity ELSE 1)

\* computed_total += price_cents * qty
AddLine(total, item, prod) ==
    total + PriceCents(prod) * ClampQty(item.quantity)

\* slip: the empty-cart check is missing
CartIsEmptyNever(its) == FALSE

\* if not items
CartIsEmpty(its) == Len(its) = 0

\* f"Product {item.slug} not found"
NotFoundDetail(slug) == "Product " \o slug \o " not found"

HTTPException(status_code, detail) ==
    [status_code |-> status_code, detail |-> detail]

\* slips: the test inverted; the test missing; "count < 3"
SeedInverted(n) == n # 0
SeedAlways(n) == TRUE
SeedRepair(n) == n < 3

\* an exception no handler catches: the server answers 500
Unhandled(exception) ==
    [status_code |-> 500, detail |-> "Internal Server Error",
     exception |-> exception]

\* if count == 0
SeedNeeded(n) == n = 0

(***************************************************************************)
(* database.py, from section 4.1 of the specification.                     *)
(***************************************************************************)
\* create_document(collection_name, record): the collection after the insert
create_document(coll, record) == Append(coll, record)

\* get_documents(collection_name); an absent store yields an empty result
get_documents(handle, coll) == IF handle = "None" THEN <<>> ELSE coll

\* the provider's next session: an opaque id and the redirect URL
NewSession(created) ==
    [id |-> Len(created) + 1, url |-> <<"checkout.stripe", Len(created) + 1>>]

(***************************************************************************)
(* Initial state: the process has started, no request has arrived, the     *)
(* collections are empty.                                                  *)
(***************************************************************************)
Init ==
    /\ STRIPE_SECRET_KEY \in BOOLEAN
    /\ db \in {"None", "Database"}
    /\ db_truth \in BoolOf(db)
    /\ product = <<>>
    /\ order = <<>>
    /\ sessions = <<>>
    /\ op = [p \in Procs |-> "none"]
    /\ pc = [p \in Procs |-> "idle"]
    /\ items = [p \in Procs |-> <<>>]
    /\ line_items = [p \in Procs |-> <<>>]
    /\ order_items = [p \in Procs |-> <<>>]
    /\ computed_total = [p \in Procs |-> 0]
    /\ session = [p \in Procs |-> None]
    /\ count = [p \in Procs |-> -1]
    /\ seed_idx = [p \in Procs |-> 0]
    /\ resp = [p \in Procs |-> None]
    /\ seed_fault = "none"
    /\ submitted = 0

\* the handler of worker p ends with response r
Finish(p, r) ==
    /\ pc' = [pc EXCEPT ![p] = "done"]
    /\ resp' = [resp EXCEPT ![p] = r]

(***************************************************************************)
(* GET /api/products: list_products and ensure_seed_products.              *)
(***************************************************************************)
\* the request arrives; ensure_seed_products returns at once when db is None
list_products(p) ==
    /\ pc[p] = "idle"
    /\ op' = [op EXCEPT ![p] = "list_products"]
    /\ pc' = [pc EXCEPT ![p] = IF db = "None" THEN "get_documents"
                                               ELSE "count_documents"]
    /\ UNCHANGED <<config, store, cart, seed, resp, hist>>

\* count = db["product"].count_documents({}); if count == 0: ...
\* an exception is swallowed by the except clause
SeedCount(p) ==
    /\ pc[p] = "count_documents"
    /\ \/ /\ count' = [count EXCEPT ![p] = Len(product)]
          /\ IF SeedNeeded(Len(product))
             THEN /\ pc' = [pc EXCEPT ![p] = "create_document"]
                  /\ seed_idx' = [seed_idx EXCEPT ![p] = 1]
             ELSE /\ pc' = [pc EXCEPT ![p] = "get_documents"]
                  /\ UNCHANGED seed_idx
          /\ UNCHANGED seed_fault
       \/ /\ pc' = [pc EXCEPT ![p] = "get_documents"]
          /\ seed_fault' = IF seed_fault = "none" THEN "clean" ELSE seed_fault
          /\ UNCHANGED <<count, seed_idx>>
    /\ UNCHANGED <<config, store, cart, op, resp, submitted>>

\* for p in SEED_PRODUCTS: create_document("product", p)
\* an exception ends the loop and is swallowed by the except clause
SeedInsert(p) ==
    /\ pc[p] = "create_document"
    /\ \/ /\ product' = create_document(product, SEED_PRODUCTS[seed_idx[p]])
          /\ seed_idx' = [seed_idx EXCEPT ![p] = @ + 1]
          /\ pc' = [pc EXCEPT ![p] = IF seed_idx[p] = Len(SEED_PRODUCTS)
                                     THEN "get_documents"
                                     ELSE "create_document"]
          /\ UNCHANGED seed_fault
       \/ /\ pc' = [pc EXCEPT ![p] = "get_documents"]
          /\ seed_fault' = IF seed_idx[p] > 1 THEN "partial"
                           ELSE IF seed_fault = "none" THEN "clean"
                           ELSE seed_fault
          /\ UNCHANGED <<product, seed_idx>>
    /\ UNCHANGED <<config, order, sessions, cart, count, op, resp, submitted>>

\* products = get_documents("product"); return {"products": products}
ListRead(p) ==
    /\ pc[p] = "get_documents"
    /\ Finish(p, [status_code |-> 200,
                  products |-> get_documents(db, product)])
    /\ UNCHANGED <<config, store, cart, seed, op, hist>>

(***************************************************************************)
(* POST /api/create-checkout-session: create_checkout_session.             *)
(***************************************************************************)
\* the request arrives with its body; the two checks before the loop
create_checkout_session(p, body) ==
    /\ pc[p] = "idle"
    /\ submitted' = submitted + Len(body)
    /\ op' = [op EXCEPT ![p] = "create_checkout_session"]
    /\ items' = [items EXCEPT ![p] = body]
    /\ IF ~STRIPE_SECRET_KEY
       THEN Finish(p, HTTPException(500, "Stripe not configured"))
       ELSE IF CartIsEmpty(body)
       THEN Finish(p, HTTPException(400, "Cart is empty"))
       ELSE /\ pc' = [pc EXCEPT ![p] = IF Len(body) = 0 THEN "Session.create"
                                                        ELSE "find_one"]
            /\ UNCHANGED resp
    /\ UNCHANGED <<config, store, line_items, order_items, computed_total,
                   session, seed, seed_fault>>

\* one pass of "for item in items":
\* prod = db["product"].find_one({"slug": item.slug}) if db else None
\* "if db" raising, or find_one raising, leaves the handler uncaught
ResolveLine(p) ==
    /\ pc[p] = "find_one"
    /\ LET item == items[p][Len(order_items[p]) + 1]
           prod == IF db_truth = "True" THEN find_one(product, item.slug)
                                        ELSE None
       IN  \/ /\ db_truth = "raises"
              /\ Finish(p, Unhandled("NotImplementedError"))
              /\ UNCHANGED <<line_items, order_items, computed_total>>
           \/ /\ db_truth = "True"
              /\ Finish(p, Unhandled("PyMongoError"))
              /\ UNCHANGED <<line_items, order_items, computed_total>>
           \/ /\ db_truth # "raises"
              /\ prod = None
              /\ Finish(p, HTTPException(404, NotFoundDetail(item.slug)))
              /\ UNCHANGED <<line_items, order_items, computed_total>>
           \/ /\ db_truth # "raises"
              /\ prod # None
              /\ computed_total' =
                     [computed_total EXCEPT ![p] = AddLine(@, item, prod)]
              /\ order_items' =
                     [order_items EXCEPT ![p] = Append(@, OrderItem(item, prod))]
              /\ line_items' =
                     [line_items EXCEPT ![p] = Append(@, LineItem(item, prod))]
              /\ pc' = [pc EXCEPT ![p] =
                           IF Len(order_items[p]) + 1 = Len(items[p])
                           THEN "Session.create" ELSE "find_one"]
              /\ UNCHANGED resp
    /\ UNCHANGED <<config, store, items, session, seed, op, hist>>

\* slip: the pending order is stored before the provider is called
CreateSessionStoreFirst(p) ==
    /\ pc[p] = "Session.create"
    /\ \/ /\ session' = [session EXCEPT ![p] = NewSession(sessions)]
          /\ sessions' = Append(sessions,
                                [id |-> NewSession(sessions).id,
                                 line_items |-> line_items[p]])
          /\ order' = Append(order,
                          Order("unknown", order_items[p], computed_total[p],
                                "eur", NewSession(sessions).id))
          /\ pc' = [pc EXCEPT ![p] = "create_order"]
          /\ UNCHANGED resp
       \/ /\ \E e \in ProviderErrors : Finish(p, HTTPException(500, e))
          /\ order' = Append(order,
                          Order("unknown", order_items[p], computed_total[p],
                                "eur", 0))
          /\ UNCHANGED <<session, sessions>>
    /\ UNCHANGED <<config, product, items, line_items, order_items,
                   computed_total, seed, op, hist>>

\* session = stripe.checkout.Session.create(...); except: raise 500
CreateSession(p) ==
    /\ pc[p] = "Session.create"
    /\ \/ /\ session' = [session EXCEPT ![p] = NewSession(sessions)]
          /\ sessions' = Append(sessions,
                                [id |-> NewSession(sessions).id,
                                 line_items |-> line_items[p]])
          /\ pc' = [pc EXCEPT ![p] = "create_order"]
          /\ UNCHANGED resp
       \/ /\ \E e \in ProviderErrors : Finish(p, HTTPException(500, e))
          /\ UNCHANGED <<session, sessions>>
    /\ UNCHANGED <<config, product, order, items, line_items, order_items,
                   computed_total, seed, op, hist>>

\* slip: the insert is not wrapped in try/except
StoreOrderFatal(p) ==
    /\ pc[p] = "create_order"
    /\ \/ /\ order' = create_document(order,
                          Order("unknown", order_items[p], computed_total[p],
                                "eur", session[p].id))
          /\ Finish(p, [status_code |-> 200, id |-> session[p].id,
                        url |-> session[p].url])
       \/ /\ UNCHANGED order
          /\ Finish(p, HTTPException(500, "Internal Server Error"))
    /\ UNCHANGED <<config, product, sessions, cart, seed, op, hist>>

\* try: create_document("order", Order(...)) except: pass; return id and url
StoreOrder(p) ==
    /\ pc[p] = "create_order"
    /\ \/ /\ OrderValid(computed_total[p])
          /\ order' = create_document(order,
                          Order("unknown", order_items[p], computed_total[p],
                                "eur", session[p].id))
       \/ UNCHANGED order
    /\ Finish(p, [status_code |-> 200, id |-> session[p].id,
                  url |-> session[p].url])
    /\ UNCHANGED <<config, product, sessions, cart, seed, op, hist>>

(***************************************************************************)
(* The response is sent and the worker takes the next request with fresh   *)
(* locals.                                                                 *)
(***************************************************************************)
Return(p) ==
    /\ pc[p] = "done"
    /\ op' = [op EXCEPT ![p] = "none"]
    /\ pc' = [pc EXCEPT ![p] = "idle"]
    /\ resp' = [resp EXCEPT ![p] = None]
    /\ items' = [items EXCEPT ![p] = <<>>]
    /\ line_items' = [line_items EXCEPT ![p] = <<>>]
    /\ order_items' = [order_items EXCEPT ![p] = <<>>]
    /\ computed_total' = [computed_total EXCEPT ![p] = 0]
    /\ session' = [session EXCEPT ![p] = None]
    /\ count' = [count EXCEPT ![p] = -1]
    /\ seed_idx' = [seed_idx EXCEPT ![p] = 0]
    /\ UNCHANGED <<config, store, hist>>

\* a request arrives at worker p; budget bounds the cart lines of the run
Arrive(p, budget) ==
    \/ list_products(p)
    \/ \E body \in Carts(budget - submitted) : create_checkout_session(p, body)

Work(p) ==
    \/ SeedCount(p)
    \/ SeedInsert(p)
    \/ ListRead(p)
    \/ ResolveLine(p)
    \/ CreateSession(p)
    \/ StoreOrder(p)
    \/ Return(p)

\* no request is being served
Quiet == \A q \in Procs : pc[q] = "idle"

\* requests are served by a thread pool: their store and provider calls interleave
Next == \E p \in Procs : Arrive(p, MaxLinesConcurrent) \/ Work(p)
Spec == Init /\ [][Next]_vars

\* the same program serving one request at a time
NextSeq == \E p \in Procs : (Quiet /\ Arrive(p, MaxLines)) \/ Work(p)
SpecSeq == Init /\ [][NextSeq]_vars

(***************************************************************************)
(* Vocabulary of the properties, stated without the handler's helpers.     *)
(***************************************************************************)
Checkout(p) == op[p] = "create_checkout_session"
Listing(p) == op[p] = "list_products"

\* the catalog price of a slug: the price of the stored products carrying it
Resolves(slug) == \E i \in 1..Len(product) : product[i].slug = slug
CatalogPrice(slug) ==
    CHOOSE c \in {product[i].price_cents :
                    i \in {j \in 1..Len(product) : product[j].slug = slug}} : TRUE

\* a quantity of 0 or less counts as 1
Treated(quantity) == IF quantity <= 0 THEN 1 ELSE quantity

RECURSIVE CartTotal(_)
CartTotal(its) ==
    IF its = <<>> THEN 0
    ELSE CartTotal(SubSeq(its, 1, Len(its) - 1))
         + CatalogPrice(its[Len(its)].slug) * Treated(its[Len(its)].quantity)

RECURSIVE StoredTotal(_)
StoredTotal(its) ==
    IF its = <<>> THEN 0
    ELSE StoredTotal(Tail(its)) + its[1].price_cents * its[1].quantity

RECURSIVE ChargedTotal(_)
ChargedTotal(lines) ==
    IF lines = <<>> THEN 0
    ELSE ChargedTotal(Tail(lines))
         + lines[1].price_data.unit_amount * lines[1].quantity

\* the lines the loop has handled so far
Handled(p) == SubSeq(items[p], 1, Len(order_items[p]))
\* the loop has handled every line: the handler is past it
PastLoop(p) == pc[p] \in {"Session.create", "create_order"} \/ session[p] # None

OrdersOf(id) == {k \in 1..Len(order) : order[k].stripe_session_id = id}
SessionsOf(id) == {j \in 1..Len(sessions) : sessions[j].id = id}

(***************************************************************************)
(* C1  For a non-empty cart whose slugs all resolve, with the provider key *)
(* configured, computed_total is the sum over the cart lines of the        *)
(* catalog price of the line's product times max(1, quantity); the lines   *)
(* handled so far always add up to the running total.  The cart            *)
(* [happy-duck-tee x 2] gives 4998 and one line item of quantity 2.        *)
(***************************************************************************)
C1_ComputedTotal ==
    \A p \in Procs :
        Checkout(p) /\ STRIPE_SECRET_KEY =>
            /\ computed_total[p] = CartTotal(Handled(p))
            /\ PastLoop(p) =>
                  /\ items[p] # <<>>
                  /\ \A i \in 1..Len(items[p]) : Resolves(items[p][i].slug)
                  /\ computed_total[p] = CartTotal(items[p])
                  /\ Len(line_items[p]) = Len(items[p])
            /\ PastLoop(p) /\ items[p] = <<CartItem("happy-duck-tee", 2)>> =>
                  /\ computed_total[p] = 4998
                  /\ Len(line_items[p]) = 1
                  /\ line_items[p][1].quantity = 2

C1_Witness ==
    \E p \in Procs :
        /\ Checkout(p) /\ pc[p] = "Session.create"
        /\ Len(items[p]) = 2
        /\ items[p][1].slug # items[p][2].slug
        /\ computed_total[p] = HappyPrice * 2 + ExplorerPrice

(***************************************************************************)
(* C2  An empty cart never reaches the payment provider and stores no      *)
(* order.  With the provider key configured the answer is 400 "Cart is     *)
(* empty"; without it the configuration check comes first and the answer   *)
(* is 500 "Stripe not configured".                                         *)
(***************************************************************************)
C2_EmptyCart ==
    \A p \in Procs :
        Checkout(p) /\ items[p] = <<>> =>
            /\ pc[p] = "done"
            /\ session[p] = None
            /\ line_items[p] = <<>> /\ order_items[p] = <<>>
            /\ resp[p] = IF STRIPE_SECRET_KEY
                         THEN [status_code |-> 400, detail |-> "Cart is empty"]
                         ELSE [status_code |-> 500,
                               detail |-> "Stripe not configured"]

C2_Witness ==
    \E p \in Procs :
        /\ Checkout(p) /\ items[p] = <<>> /\ pc[p] = "done"
        /\ STRIPE_SECRET_KEY
        /\ resp[p] = [status_code |-> 400, detail |-> "Cart is empty"]
        /\ order = <<>> /\ sessions = <<>>

\* C2 as the specification words it: 400 in every configuration state
C2_AlwaysBadRequest ==
    \A p \in Procs :
        Checkout(p) /\ items[p] = <<>> /\ pc[p] = "done" =>
            resp[p] = [status_code |-> 400, detail |-> "Cart is empty"]

(***************************************************************************)
(* C3  With the provider key configured and the store answering, a cart    *)
(* holding a slug that does not resolve ends in 404 "Product <slug> not    *)
(* found" for the first such slug of the cart, whatever its position and   *)
(* however many lines before it resolved; the handler never reaches the    *)
(* provider call or the order insert.                                      *)
(***************************************************************************)
Unresolved(its) == {i \in 1..Len(its) : ~Resolves(its[i].slug)}
FirstUnresolved(its) ==
    CHOOSE i \in Unresolved(its) : \A j \in Unresolved(its) : i <= j

C3_Case(p) ==
    /\ Checkout(p) /\ STRIPE_SECRET_KEY /\ Unresolved(items[p]) # {}
    /\ resp[p] # Unhandled("PyMongoError")

C3_Outcome(p) ==
    /\ pc[p] \in {"find_one", "done"}
    /\ session[p] = None
    /\ Len(order_items[p]) < FirstUnresolved(items[p])
    /\ pc[p] = "done" =>
          resp[p] = [status_code |-> 404,
                     detail |-> "Product "
                         \o items[p][FirstUnresolved(items[p])].slug
                         \o " not found"]

C3_NotFound == \A p \in Procs : C3_Case(p) => C3_Outcome(p)

\* C3 where bool(db) does not raise: there the claim holds
C3_NotFoundUnlessBoolRaises ==
    db_truth # "raises" => \A p \in Procs : C3_Case(p) => C3_Outcome(p)

(***************************************************************************)
(* C4  Requests served one at a time, store connected and answering: the   *)
(* first listing seeds the three demo products starting from the empty     *)
(* collection, every listing ends with exactly these three stored and      *)
(* returned, and a listing that counts a non-empty collection inserts      *)
(* nothing.                                                                *)
(***************************************************************************)
C4_SeedOnce ==
    seed_fault = "none" /\ db = "Database" =>
        /\ \E n \in 0..Len(SEED_PRODUCTS) : product = SubSeq(SEED_PRODUCTS, 1, n)
        /\ \A p \in Procs : Listing(p) =>
              /\ pc[p] = "create_document" =>
                    /\ count[p] = 0
                    /\ product = SubSeq(SEED_PRODUCTS, 1, seed_idx[p] - 1)
              /\ pc[p] \in {"get_documents", "done"} => product = SEED_PRODUCTS
              /\ pc[p] = "done" =>
                    resp[p] = [status_code |-> 200, products |-> SEED_PRODUCTS]
              /\ count[p] > 0 => count[p] = 3 /\ seed_idx[p] = 0

\* a later listing found the three products and inserted nothing
C4_Witness ==
    \E p \in Procs :
        /\ Listing(p) /\ pc[p] = "done"
        /\ seed_fault = "none"
        /\ count[p] = 3 /\ seed_idx[p] = 0
        /\ Len(product) = 3
        /\ {product[i].slug : i \in 1..3} =
               {"happy-duck-tee", "skater-duck-tee", "explorer-duck-tee"}

(***************************************************************************)
(* C5  A quantity of 0 or less counts as 1, a quantity of 1 or more is     *)
(* kept, in computed_total, in the line item sent to the provider and in   *)
(* the line stored with the order.                                         *)
(***************************************************************************)
RECURSIVE TreatedTotal(_, _)
TreatedTotal(its, stored) ==
    IF stored = <<>> THEN 0
    ELSE TreatedTotal(its, SubSeq(stored, 1, Len(stored) - 1))
         + stored[Len(stored)].price_cents * Treated(its[Len(stored)].quantity)

C5_Clamp ==
    \A p \in Procs :
        Checkout(p) =>
            /\ Len(line_items[p]) = Len(order_items[p])
            /\ \A i \in 1..Len(order_items[p]) :
                  /\ order_items[p][i].quantity = Treated(items[p][i].quantity)
                  /\ line_items[p][i].quantity = Treated(items[p][i].quantity)
            /\ computed_total[p] = TreatedTotal(items[p], order_items[p])
            /\ session[p] # None =>
                  /\ \A j \in SessionsOf(session[p].id) :
                        sessions[j].line_items = line_items[p]
                  /\ \A k \in OrdersOf(session[p].id) :
                        /\ order[k].items = order_items[p]
                        /\ order[k].amount_total = computed_total[p]

\* an order is stored for a cart with a negative, a zero and a positive quantity
C5_Witness ==
    \E p \in Procs :
        /\ Checkout(p) /\ pc[p] = "done" /\ session[p] # None
        /\ OrdersOf(session[p].id) # {}
        /\ {items[p][i].quantity : i \in 1..Len(items[p])} = {-1, 0, 2}

(***************************************************************************)
(* C6  Once the provider has created the session, the handler answers 200  *)
(* with that session's id and url whether the order insert succeeds or     *)
(* raises; a failed insert leaves the order collection as it was.          *)
(***************************************************************************)
C6_Answer(p) ==
    [status_code |-> 200, id |-> session[p].id, url |-> session[p].url]

C6_State ==
    \A p \in Procs :
        session[p] # None =>
            /\ Checkout(p)
            /\ pc[p] \in {"create_order", "done"}
            /\ SessionsOf(session[p].id) # {}
            /\ pc[p] = "done" => resp[p] = C6_Answer(p)

C6_Step ==
    \A p \in Procs :
        pc[p] = "create_order" /\ pc'[p] # "create_order" =>
            /\ pc'[p] = "done"
            /\ resp'[p] = C6_Answer(p)
            /\ \/ order' = order
               \/ order' = Append(order,
                                  Order("unknown", order_items[p],
                                        computed_total[p], "eur", session[p].id))

C6_BestEffort == [](C6_State) /\ [][C6_Step]_vars

\* the insert raised and the caller still got the session
C6_Witness ==
    \E p \in Procs :
        /\ Checkout(p) /\ pc[p] = "done" /\ session[p] # None
        /\ OrdersOf(session[p].id) = {}
        /\ resp[p] = C6_Answer(p)

(***************************************************************************)
(* C7  Two listings that interleave on the empty collection can both count *)
(* 0 and both insert the demo catalog.  Whatever the interleaving, every   *)
(* stored row is one of the three seed products, and no seed product is    *)
(* stored more often than there are requests in flight.                    *)
(***************************************************************************)
SeedSet == {SEED_PRODUCTS[k] : k \in 1..Len(SEED_PRODUCTS)}
Copies(row) == Cardinality({i \in 1..Len(product) : product[i] = row})

C7_DuplicationOnly ==
    /\ \A i \in 1..Len(product) : product[i] \in SeedSet
    /\ \A row \in SeedSet : Copies(row) <= Cardinality(Procs)

\* both passes ran to the end: six rows, each slug twice
C7_Witness ==
    /\ Len(product) > 3
    /\ \E i, j \in 1..Len(product) : i # j /\ product[i].slug = product[j].slug
    /\ \A row \in SeedSet : Copies(row) = 2
    /\ \A p \in Procs : Listing(p) /\ count[p] = 0

(***************************************************************************)
(* C8  When the provider fails to create the session, the handler answers  *)
(* 500 with the provider's message and no session reference, and the       *)
(* step stores nothing: no order is inserted on this path.                 *)
(***************************************************************************)
ProviderFailures == {[status_code |-> 500, detail |-> e] : e \in ProviderErrors}

C8_State ==
    \A p \in Procs :
        Checkout(p) /\ pc[p] = "done" /\ resp[p] \in ProviderFailures =>
            /\ session[p] = None
            /\ Len(order_items[p]) = Len(items[p])

C8_Step ==
    \A p \in Procs :
        pc[p] = "Session.create" /\ pc'[p] = "done" =>
            /\ resp'[p] \in ProviderFailures
            /\ session'[p] = None
            /\ UNCHANGED <<product, order, sessions>>

C8_ProviderFailure == [](C8_State) /\ [][C8_Step]_vars

C8_Witness ==
    \E p \in Procs :
        /\ Checkout(p) /\ pc[p] = "done"
        /\ resp[p] = [status_code |-> 500, detail |-> "api_connection_error"]
        /\ order = <<>> /\ sessions = <<>>

(***************************************************************************)
(* C9  Every stored order carries the id of exactly one session the        *)
(* provider created, no two orders share a session, its amount_total is    *)
(* the sum of price_cents x quantity over its own items and over the line  *)
(* items sent for that session; an order is inserted only by the request   *)
(* that created its session, and stored orders never change or disappear.  *)
(***************************************************************************)
C9_State ==
    /\ Len(order) <= Len(sessions)
    /\ \A k \in 1..Len(order) :
          /\ Cardinality(SessionsOf(order[k].stripe_session_id)) = 1
          /\ OrdersOf(order[k].stripe_session_id) = {k}
          /\ order[k].amount_total = StoredTotal(order[k].items)
          /\ \A j \in SessionsOf(order[k].stripe_session_id) :
                order[k].amount_total = ChargedTotal(sessions[j].line_items)

C9_Step ==
    /\ SubSeq(order', 1, Len(order)) = order
    /\ Len(order') >= Len(order)
    /\ order' # order =>
          /\ Len(order') = Len(order) + 1
          /\ \E p \in Procs :
                /\ pc[p] = "create_order" /\ pc'[p] = "done"
                /\ session[p] # None
                /\ order'[Len(order')].stripe_session_id = session[p].id

C9_OrderCollection == [](C9_State) /\ [][C9_Step]_vars

\* three sessions, two of them with their order, the third insert failed
C9_Witness ==
    /\ Len(sessions) = 3 /\ Len(order) = 2
    /\ order[1].stripe_session_id # order[2].stripe_session_id
    /\ order[1].amount_total # order[2].amount_total

(***************************************************************************)
(* C10  Requests served one at a time: once an insert has raised in a      *)
(* seeding pass that had stored at least one product, the collection       *)
(* holds the first 1 or 2 seed products for good: no later request         *)
(* inserts, and the full demo set is never stored.                         *)
(***************************************************************************)
C10_NeverRepaired ==
    seed_fault = "partial" =>
        /\ Len(product) \in {1, 2}
        /\ product = SubSeq(SEED_PRODUCTS, 1, Len(product))
        /\ \A p \in Procs : pc[p] # "create_document"
        /\ \A p \in Procs :
              Listing(p) /\ pc[p] = "done" =>
                  /\ Len(resp[p].products) < Len(SEED_PRODUCTS)
                  /\ count[p] # 0 => seed_idx[p] = 0

\* a later listing counted the partial catalog and left it
C10_Witness ==
    \E p \in Procs :
        /\ seed_fault = "partial"
        /\ Listing(p) /\ pc[p] = "done"
        /\ count[p] \in {1, 2} /\ seed_idx[p] = 0
        /\ Len(product) = count[p]

====
